---------------------------- MODULE Spec2Model ----------------------------
(***************************************************************************)
(* Model of smrtypntz/database.py: the condition objects, the four query   *)
(* builders, the _Model row mapping and the _DbHandler execute methods.    *)
(*                                                                         *)
(* A Python str is a sequence of one-character strings, so that joining,   *)
(* formatting, stripping and unpacking act on characters as they do in     *)
(* Python.  Every other Python value is a tagged record.  A call either    *)
(* returns a value, [val |-> v], or raises, [exc |-> "<exception class>"]. *)
(***************************************************************************)
EXTENDS Integers, Sequences, FiniteSets, TLC

(***************************************************************************)
(* Bounds of the explored inputs.                                          *)
(***************************************************************************)
MaxMapLen == 2
MaxMembers == 2
MaxInt == 2

(***************************************************************************)
(* Python values.                                                          *)
(***************************************************************************)
None == [t |-> "NoneType"]
PyStr(s) == [t |-> "str", s |-> s]
PyInt(i) == [t |-> "int", i |-> i]
PyBool(b) == [t |-> "bool", b |-> b]
PyTuple(items) == [t |-> "tuple", items |-> items]

Ok(v) == [val |-> v]
Raise(e) == [exc |-> e]
IsOk(r) == "val" \in DOMAIN r
Raised(r) == "exc" \in DOMAIN r

(***************************************************************************)
(* str.join, str.strip, str() and repr() on the values above.              *)
(***************************************************************************)
RECURSIVE Join(_, _)
Join(sep, strs) ==
    IF Len(strs) = 0 THEN <<>>
    ELSE IF Len(strs) = 1 THEN strs[1]
    ELSE strs[1] \o sep \o Join(sep, Tail(strs))

Whitespace == {" ", "\t", "\n", "\r"}

RECURSIVE LStrip(_)
LStrip(s) ==
    IF Len(s) > 0 /\ s[1] \in Whitespace THEN LStrip(Tail(s)) ELSE s

RECURSIVE RStrip(_)
RStrip(s) ==
    IF Len(s) > 0 /\ s[Len(s)] \in Whitespace
    THEN RStrip(SubSeq(s, 1, Len(s) - 1))
    ELSE s

Strip(s) == RStrip(LStrip(s))

Digits == <<"0", "1", "2", "3", "4", "5", "6", "7", "8", "9">>

RECURSIVE IntStr(_)
IntStr(n) ==
    IF n < 0 THEN <<"-">> \o IntStr(0 - n)
    ELSE IF n < 10 THEN <<Digits[n + 1]>>
    ELSE IntStr(n \div 10) \o <<Digits[(n % 10) + 1]>>

RECURSIVE Repr(_)
RECURSIVE Str(_)
ReprItems(items) == [i \in 1..Len(items) |-> Repr(items[i])]

Repr(v) ==
    CASE v.t = "str" -> <<"'">> \o v.s \o <<"'">>
      [] v.t = "tuple" ->
            IF Len(v.items) = 1
            THEN <<"(">> \o Repr(v.items[1]) \o <<",", ")">>
            ELSE <<"(">> \o Join(<<",", " ">>, ReprItems(v.items)) \o <<")">>
      [] OTHER -> Str(v)

Str(v) ==
    CASE v.t = "NoneType" -> <<"N", "o", "n", "e">>
      [] v.t = "str" -> v.s
      [] v.t = "int" -> IntStr(v.i)
      [] v.t = "bool" -> IF v.b THEN <<"T", "r", "u", "e">>
                                ELSE <<"F", "a", "l", "s", "e">>
      [] v.t = "tuple" -> Repr(v)

(***************************************************************************)
(* class _Condition                                                        *)
(***************************************************************************)
\* _Condition._Type: the members' values as the class body defines them.
\* A trailing comma makes the value a one-element tuple.
Condition_Type ==
    [EQUALS |-> PyTuple(<<PyStr(<<"=">>)>>),
     NOT_EQUALS |-> PyTuple(<<PyStr(<<"!", "=">>)>>),
     GREATER_THAN |-> PyTuple(<<PyStr(<<">">>)>>),
     GREATER_THAN_EQUALS |-> PyTuple(<<PyStr(<<">", "=">>)>>),
     LESS_THAN |-> PyTuple(<<PyStr(<<"<">>)>>),
     LESS_THAN_EQUALS |-> PyStr(<<"<", "=">>)]

\* _Condition(column_name, value): _type keeps the class default.
Condition(column_name, value) ==
    [cls |-> "_Condition", _column_name |-> column_name, _value |-> value,
     _type |-> "EQUALS"]

\* _Condition.__str__
Condition_str(self) ==
    IF self._column_name # None /\ self._value # None
    THEN Ok(Str(self._column_name) \o <<" ">> \o Str(Condition_Type[self._type])
            \o <<" ">> \o Str(self._value))
    ELSE Ok(<<>>)

(***************************************************************************)
(* class _ConditionGroup(list)                                             *)
(***************************************************************************)
\* _ConditionGroup._Type: AND carries a trailing comma, OR does not.
ConditionGroup_Type ==
    [AND |-> PyTuple(<<PyStr(<<" ", "A", "N", "D", " ">>)>>),
     OR |-> PyStr(<<" ", "O", "R", " ">>)]

\* _ConditionGroup(members): the members are the list's own items; the
\* attributes _conditions and _type keep the class defaults.
ConditionGroup(members) ==
    [cls |-> "_ConditionGroup", items |-> members, _conditions |-> <<>>,
     _type |-> "AND"]

\* _ConditionGroup.__str__: <_type.value>.join(_conditions).  A tuple has no
\* join; str.join accepts only str items.
ConditionGroup_str(self) ==
    LET sep == ConditionGroup_Type[self._type]
        cs == self._conditions
    IN  IF sep.t # "str" THEN Raise("AttributeError")
        ELSE IF \E i \in 1..Len(cs) : cs[i].t # "str" THEN Raise("TypeError")
        ELSE Ok(<<"(">> \o Join(sep.s, [i \in 1..Len(cs) |-> cs[i].s])
                \o <<")">>)

\* str(x) for the two classes a where_map may have.
Where_str(w) ==
    IF w.cls = "_Condition" THEN Condition_str(w) ELSE ConditionGroup_str(w)

(***************************************************************************)
(* string.Template: a template is its sequence of literal segments and     *)
(* named placeholders; substitute() puts str(mapping[name]) in each.       *)
(***************************************************************************)
Lit(s) == [lit |-> s]
Var(n) == [var |-> n]

RECURSIVE Template_substitute(_, _)
Template_substitute(tmpl, mapping) ==
    IF Len(tmpl) = 0 THEN <<>>
    ELSE (IF "lit" \in DOMAIN tmpl[1] THEN tmpl[1].lit
          ELSE Str(mapping[tmpl[1].var]))
         \o Template_substitute(Tail(tmpl), mapping)

(***************************************************************************)
(* class _Query and its four subclasses                                    *)
(***************************************************************************)
PyDict(items) == [t |-> "dict", items |-> items]
DictKeys(d) == [i \in 1..Len(d.items) |-> d.items[i][1]]
DictValues(d) == [i \in 1..Len(d.items) |-> d.items[i][2]]

\* _Query.__init__
Query(cls, table_name, value_map, where_map) ==
    [cls |-> cls, _table_name |-> table_name, _value_map |-> value_map,
     _where_map |-> where_map]

\* the characters of a str, as iterating it yields them
Chars(s) == [i \in 1..Len(s) |-> <<s[i]>>]
\* s * n
Repeat(s, n) == Join(<<>>, [i \in 1..n |-> s])

\* _Query._get_columns_str
Query_get_columns_str(self) ==
    IF self._value_map # None
    THEN Join(<<",", " ">>, DictKeys(self._value_map))
    ELSE <<"*">>

\* _get_values_str without the join: "?" * len(value_map)
Query_get_values_str_unjoined(self) ==
    IF self._value_map # None
    THEN Repeat(<<"?">>, Len(self._value_map.items))
    ELSE <<>>

\* _Query._get_values_str
Query_get_values_str(self) ==
    IF self._value_map # None
    THEN Join(<<",", " ">>, Chars(Repeat(<<"?">>, Len(self._value_map.items))))
    ELSE <<>>

\* 'WHERE %s' % r, for the outcome r of str(self._where_map)
Where_format(r) ==
    IF Raised(r) THEN r ELSE Ok(<<"W", "H", "E", "R", "E", " ">> \o r.val)

\* _Query._get_where_conditions
Query_get_where_conditions(self) ==
    IF self._where_map # None THEN Where_format(Where_str(self._where_map))
    ELSE Ok(<<>>)

\* _Query._get_args
Query_get_args(self) ==
    IF self._value_map # None THEN PyTuple(DictValues(self._value_map))
    ELSE None

\* _Insert._get_query_str
Insert_get_query_str(self) ==
    LET tmpl == <<Lit(<<"I", "N", "S", "E", "R", "T", " ", "I", "N", "T", "O", " ">>),
                  Var("table"), Lit(<<" ", "(">>), Var("columns"),
                  Lit(<<")", " ", "V", "A", "L", "U", "E", "S", " ", "(">>),
                  Var("values"), Lit(<<")">>)>>
    IN  Ok(Template_substitute(tmpl,
            [table |-> self._table_name,
             columns |-> PyStr(Query_get_columns_str(self)),
             values |-> PyStr(Query_get_values_str(self))]))

\* the "where" argument _Select and _Update hand to substitute()
WhereArg(self) ==
    IF self._where_map # None THEN Query_get_where_conditions(self)
    ELSE Ok(<<>>)

\* _Select._get_query_str, given the outcome of evaluating its "where"
Select_substitute(self, where) ==
    LET tmpl == <<Lit(<<"S", "E", "L", "E", "C", "T", " ">>), Var("columns"),
                  Lit(<<" ", "F", "R", "O", "M", " ">>), Var("table"),
                  Lit(<<" ">>), Var("where")>>
    IN  IF Raised(where) THEN where
        ELSE Ok(Strip(Template_substitute(tmpl,
                [columns |-> PyStr(Query_get_columns_str(self)),
                 table |-> self._table_name,
                 where |-> PyStr(where.val)])))

\* _Select._get_query_str
Select_get_query_str(self) == Select_substitute(self, WhereArg(self))

\* _Update._get_changes_string: iterating the dict yields its keys, and
\* "for key, val in" unpacks each key, a str, into exactly two characters.
Update_get_changes_string(self) ==
    IF self._value_map = None THEN Ok(<<>>)
    ELSE LET keys == DictKeys(self._value_map)
         IN  IF \E i \in 1..Len(keys) : Len(keys[i]) # 2
             THEN Raise("ValueError")
             ELSE Ok(Join(<<",", " ">>,
                     [i \in 1..Len(keys) |->
                        <<keys[i][1]>> \o <<" ", "=", " ">> \o <<keys[i][2]>>]))

\* _Update._get_query_str, given the outcomes of evaluating its "changes"
\* and its "where", which are evaluated in that order
Update_substitute(self, changes, where) ==
    LET tmpl == <<Lit(<<"U", "P", "D", "A", "T", "E", " ">>), Var("table"),
                  Lit(<<" ", "S", "E", "T", " ">>), Var("changes"),
                  Lit(<<" ">>), Var("where")>>
    IN  IF Raised(changes) THEN changes
        ELSE IF Raised(where) THEN where
        ELSE Ok(Strip(Template_substitute(tmpl,
                [table |-> self._table_name,
                 changes |-> PyStr(changes.val),
                 where |-> PyStr(where.val)])))

\* _Update._get_query_str
Update_get_query_str(self) ==
    Update_substitute(self, Update_get_changes_string(self), WhereArg(self))

\* _Delete._get_query_str's substitute(), given the outcome of its "where"
Delete_substitute(self, where) ==
    LET tmpl == <<Lit(<<"D", "E", "L", "E", "T", "E", " ", "F", "R", "O", "M", " ">>),
                  Var("table"), Lit(<<" ">>), Var("where")>>
    IN  IF Raised(where) THEN where
        ELSE Ok(Template_substitute(tmpl,
                [table |-> self._table_name, where |-> PyStr(where.val)]))

\* _Delete._get_query_str
Delete_get_query_str(self) ==
    IF self._where_map # None
    THEN Delete_substitute(self, Query_get_where_conditions(self))
    ELSE Ok(<<>>)

\* self._get_query_str(), dispatched on the builder's class
Query_get_query_str(self) ==
    CASE self.cls = "_Insert" -> Insert_get_query_str(self)
      [] self.cls = "_Select" -> Select_get_query_str(self)
      [] self.cls = "_Update" -> Update_get_query_str(self)
      [] self.cls = "_Delete" -> Delete_get_query_str(self)

NoTableName ==
    <<"N", "o", " ", "t", "a", "b", "l", "e", " ", "n", "a", "m", "e", " ",
      "p", "r", "o", "v", "i", "d", "e", "d", ".">>

\* the dict display {"query": ..., "args": ...} of _Query.build, given the
\* outcome q of self._get_query_str(), which is evaluated first
Build_dict(self, q) ==
    IF Raised(q) THEN [res |-> q, calls |-> <<"_get_query_str">>]
    ELSE [res |-> Ok([query |-> q.val, args |-> Query_get_args(self)]),
          calls |-> <<"_get_query_str", "_get_args">>]

\* build without the test of _table_name
Query_build_unguarded(self) == Build_dict(self, Query_get_query_str(self))

\* _Query.build: the conditional expression tests _table_name first and
\* evaluates only the chosen branch; calls lists the methods it invoked.
Query_build(self) ==
    IF self._table_name # None
    THEN Build_dict(self, Query_get_query_str(self))
    ELSE [res |-> Ok([error |-> NoTableName]), calls |-> <<>>]

(***************************************************************************)
(* class _Model(dict): a dict is its sequence of <<key, value>> items in   *)
(* insertion order; an sqlite3.Row is read through keys() and row[key].    *)
(***************************************************************************)
DictHas(d, k) == \E i \in 1..Len(d.items) : d.items[i][1] = k
DictGet(d, k) ==
    d.items[CHOOSE i \in 1..Len(d.items) : d.items[i][1] = k][2]
\* d[k] = v: an existing key keeps its place and takes the new value
DictSet(d, k, v) ==
    IF DictHas(d, k)
    THEN PyDict([i \in 1..Len(d.items) |->
                    IF d.items[i][1] = k THEN <<k, v>> ELSE d.items[i]])
    ELSE PyDict(Append(d.items, <<k, v>>))

Row(items) == [t |-> "Row", items |-> items]

\* from_sqlite without the renaming
Model_key_unmapped(sql_key, sqlite_field_mapping) == sql_key

\* the key _Model.from_sqlite stores one row field under
Model_key(sql_key, sqlite_field_mapping) ==
    IF sqlite_field_mapping # None /\ DictHas(sqlite_field_mapping, sql_key)
    THEN DictGet(sqlite_field_mapping, sql_key).s
    ELSE sql_key

\* _Model.from_sqlite: the loop over row.keys(), from the n-th key on
RECURSIVE Model_from_sqlite_loop(_, _, _, _)
Model_from_sqlite_loop(self, row, sqlite_field_mapping, n) ==
    IF n > Len(row.items) THEN self
    ELSE LET sql_key == DictKeys(row)[n]
         IN  Model_from_sqlite_loop(
                 DictSet(self, Model_key(sql_key, sqlite_field_mapping),
                         DictGet(row, sql_key)),
                 row, sqlite_field_mapping, n + 1)

Model_from_sqlite(self, row, sqlite_field_mapping) ==
    Model_from_sqlite_loop(self, row, sqlite_field_mapping, 1)

\* _Model.__init__ of the base class, whose populate() is abstract
Model_init(taglib_song, sqlite_row, sqlite_field_mapping) ==
    IF taglib_song # None THEN Raise("NotImplementedError")
    ELSE IF sqlite_row # None
    THEN Ok(Model_from_sqlite(PyDict(<<>>), sqlite_row, sqlite_field_mapping))
    ELSE Ok(PyDict(<<>>))

(***************************************************************************)
(* class _DbHandler.  conn is the attribute _conn: "Connection" after      *)
(* __init__, "None" after close().  The outcome of the sqlite3 call is the *)
(* environment's choice among those sqlite3 can produce.                   *)
(***************************************************************************)
SqliteErrors == {"sqlite3.Error"}

SampleRow == Row(<<<< <<"i", "d">>, PyInt(1) >>>>)
\* the rows a successful statement may leave in the cursor
FetchOutcomes == {<<>>, <<SampleRow>>}

\* What the database does with one call: whether the statement succeeds
\* or raises an sqlite3.Error, and the rows it leaves.
Env == [execute : {"ok", "sqlite3.Error"}, rows : FetchOutcomes]

\* cursor.execute(query_str, args): parameters that are no sequence are
\* refused with sqlite3.ProgrammingError, an sqlite3.Error (CPython 3.11;
\* older interpreters raise ValueError there, which no handler method
\* catches).
Cursor_execute(query_str, args, env) ==
    IF args.t \in {"tuple", "list"} THEN env.execute ELSE "sqlite3.Error"

\* The body shared by the three _exec_raw_query_* methods: take a cursor,
\* execute, return what "fetch" gives; an sqlite3.Error is logged and
\* turned into "failure", any other exception leaves the method.
ExecRaw(conn, query_str, args, env, fetched, failure) ==
    IF conn = "None"
    THEN [res |-> Raise("AttributeError"), sent |-> <<>>]
    ELSE LET e == Cursor_execute(query_str, args, env)
         IN  [res |-> IF e = "ok" THEN Ok(fetched)
                      ELSE IF e \in SqliteErrors THEN Ok(failure)
                      ELSE Raise(e),
              sent |-> <<[query_str |-> query_str, args |-> args]>>]

\* _DbHandler._exec_raw_query_no_result
DbHandler_exec_raw_query_no_result(conn, query_str, args, env) ==
    ExecRaw(conn, query_str, args, env, PyBool(TRUE), PyBool(FALSE))

\* _DbHandler._exec_raw_query_single_result: fetchone() is None without a row
DbHandler_exec_raw_query_single_result(conn, query_str, args, env) ==
    ExecRaw(conn, query_str, args, env,
            IF Len(env.rows) = 0 THEN None ELSE env.rows[1], None)

\* _DbHandler._exec_raw_query_all_results
DbHandler_exec_raw_query_all_results(conn, query_str, args, env) ==
    ExecRaw(conn, query_str, args, env, [t |-> "list", items |-> env.rows], None)

\* _exec_query_no_result after "query = query_obj.build()"
Exec_no_result_built(conn, query, env) ==
    IF Raised(query.res) THEN [res |-> query.res, sent |-> <<>>]
    ELSE IF "error" \in DOMAIN query.res.val
    THEN [res |-> Ok(PyBool(FALSE)), sent |-> <<>>]
    ELSE DbHandler_exec_raw_query_no_result(
             conn, query.res.val.query, query.res.val.args, env)

\* _DbHandler._exec_query_no_result
DbHandler_exec_query_no_result(conn, query_obj, env) ==
    Exec_no_result_built(conn, Query_build(query_obj), env)

\* _exec_query_single_result after "query = query_obj.build()"
Exec_single_result_built(conn, query, env) ==
    IF Raised(query.res) THEN [res |-> query.res, sent |-> <<>>]
    ELSE IF "error" \in DOMAIN query.res.val
    THEN [res |-> Ok(None), sent |-> <<>>]
    ELSE DbHandler_exec_raw_query_single_result(
             conn, query.res.val.query, query.res.val.args, env)

\* _DbHandler._exec_query_single_result
DbHandler_exec_query_single_result(conn, query_obj, env) ==
    Exec_single_result_built(conn, Query_build(query_obj), env)

\* _exec_query_all_results after "query = query_obj.build()": its last line
\* names _exec_query_raw_all_results, an attribute the class does not define
\* (the method is _exec_raw_query_all_results).
Exec_all_results_built(conn, query, env) ==
    IF Raised(query.res) THEN [res |-> query.res, sent |-> <<>>]
    ELSE IF "error" \in DOMAIN query.res.val
    THEN [res |-> Ok(None), sent |-> <<>>]
    ELSE [res |-> Raise("AttributeError"), sent |-> <<>>]

\* _DbHandler._exec_query_all_results
DbHandler_exec_query_all_results(conn, query_obj, env) ==
    Exec_all_results_built(conn, Query_build(query_obj), env)

(***************************************************************************)
(* The inputs explored.                                                    *)
(***************************************************************************)
Keys == {<<"a">>, <<"i", "d">>}
AppNames == {<<"a">>, <<"x">>}
Vals == {PyInt(i) : i \in 1..MaxInt}

SeqsUpTo(S, n) == UNION {[1..k -> S] : k \in 0..n}
\* the item sequences of the dicts with at most MaxMapLen keys
DictItems(K, V) ==
    {s \in SeqsUpTo(K \X V, MaxMapLen) :
        \A i, j \in 1..Len(s) : i # j => s[i][1] # s[j][1]}

TableNames == {None, PyStr(<<"t">>)}
ValueMaps == {None} \cup {PyDict(s) : s \in DictItems(Keys, Vals)}

Conditions ==
    {Condition(c, v) : c \in {None, PyStr(<<"i", "d">>)}, v \in {None} \cup Vals}
ConditionGroups ==
    {ConditionGroup(m) :
        m \in SeqsUpTo(Conditions \cup {ConditionGroup(<<>>),
                                        ConditionGroup(<<Condition(PyStr(<<"a">>), PyInt(1))>>)},
                       MaxMembers)}
WhereMaps ==
    {None,
     Condition(PyStr(<<"i", "d">>), PyInt(1)),
     Condition(None, PyInt(1)),
     Condition(PyStr(<<"i", "d">>), None),
     ConditionGroup(<<>>),
     ConditionGroup(<<Condition(PyStr(<<"i", "d">>), PyInt(1))>>)}

QueryClasses == {"_Insert", "_Select", "_Update", "_Delete"}
Queries ==
    {Query(c, tn, vm, w) :
        c \in QueryClasses, tn \in TableNames, vm \in ValueMaps, w \in WhereMaps}

Rows == {None} \cup {Row(s) : s \in DictItems(Keys, Vals)}
FieldMappings ==
    {None} \cup {PyDict(s) : s \in DictItems(Keys, {PyStr(n) : n \in AppNames})}
ModelArgs ==
    {[cls |-> "_Model", taglib_song |-> ts, sqlite_row |-> r,
      sqlite_field_mapping |-> fm] :
        ts \in {None, PyStr(<<"s">>)}, r \in Rows, fm \in FieldMappings}

(***************************************************************************)
(* The state: the object the caller holds, the handler's connection, and   *)
(* the last call made: what the database did in it (env), what it returned *)
(* or raised (res), the builder methods it invoked (calls) and the         *)
(* statements it handed to cursor.execute (sent).                          *)
(***************************************************************************)
VARIABLES subject, conn, last

vars == <<subject, conn, last>>

NoEnv == [execute |-> "ok", rows |-> <<>>]

Call(op, env, res, calls, sent) ==
    [op |-> op, env |-> env, res |-> res, calls |-> calls, sent |-> sent]

Init ==
    /\ subject \in Conditions \cup ConditionGroups \cup Queries \cup ModelArgs
    /\ conn = "Connection"
    /\ last = Call("none", NoEnv, Ok(None), <<>>, <<>>)

\* str(condition) or str(group)
Render ==
    /\ subject.cls \in {"_Condition", "_ConditionGroup"}
    /\ last' = Call("__str__", NoEnv, Where_str(subject), <<>>, <<>>)
    /\ UNCHANGED <<subject, conn>>

\* builder.build()
Build ==
    /\ subject.cls \in QueryClasses
    /\ LET b == Query_build(subject)
       IN  last' = Call("build", NoEnv, b.res, b.calls, <<>>)
    /\ UNCHANGED <<subject, conn>>

\* _Model(taglib_song, sqlite_row, sqlite_field_mapping)
ModelInit ==
    /\ subject.cls = "_Model"
    /\ last' = Call("_Model", NoEnv,
                    Model_init(subject.taglib_song, subject.sqlite_row,
                               subject.sqlite_field_mapping), <<>>, <<>>)
    /\ UNCHANGED <<subject, conn>>

ExecQueryNoResult ==
    /\ subject.cls \in QueryClasses
    /\ \E env \in Env :
         LET r == DbHandler_exec_query_no_result(conn, subject, env)
         IN  last' = Call("_exec_query_no_result", env, r.res, <<>>, r.sent)
    /\ UNCHANGED <<subject, conn>>

ExecQuerySingleResult ==
    /\ subject.cls \in QueryClasses
    /\ \E env \in Env :
         LET r == DbHandler_exec_query_single_result(conn, subject, env)
         IN  last' = Call("_exec_query_single_result", env, r.res, <<>>, r.sent)
    /\ UNCHANGED <<subject, conn>>

ExecQueryAllResults ==
    /\ subject.cls \in QueryClasses
    /\ \E env \in Env :
         LET r == DbHandler_exec_query_all_results(conn, subject, env)
         IN  last' = Call("_exec_query_all_results", env, r.res, <<>>, r.sent)
    /\ UNCHANGED <<subject, conn>>

\* _DbHandler.close
Close ==
    /\ conn' = "None"
    /\ last' = Call("close", NoEnv, Ok(None), <<>>, <<>>)
    /\ UNCHANGED subject

Next ==
    \/ Render
    \/ Build
    \/ ModelInit
    \/ ExecQueryNoResult
    \/ ExecQuerySingleResult
    \/ ExecQueryAllResults
    \/ Close

Spec == Init /\ [][Next]_vars

(***************************************************************************)
(* What the specification says, in its own terms.                          *)
(***************************************************************************)
ExecOps ==
    {"_exec_query_no_result", "_exec_query_single_result",
     "_exec_query_all_results"}

\* the strings of a sequence, separated by ", "
RECURSIVE CommaSeparated(_)
CommaSeparated(strs) ==
    IF Len(strs) = 0 THEN <<>>
    ELSE IF Len(strs) = 1 THEN strs[1]
    ELSE CommaSeparated(SubSeq(strs, 1, Len(strs) - 1))
             \o <<",", " ">> \o strs[Len(strs)]

Count(ch, s) == Cardinality({i \in 1..Len(s) : s[i] = ch})

Contains(s, sub) ==
    \E i \in 1..(Len(s) - Len(sub) + 1) : SubSeq(s, i, i + Len(sub) - 1) = sub

Placeholders(n) == [i \in 1..n |-> <<"?">>]

IsSequenceValue(v) == v.t \in {"tuple", "list"}

\* the operator symbols of section 4.1
OperatorSymbol ==
    [EQUALS |-> <<"=">>, NOT_EQUALS |-> <<"!", "=">>, GREATER_THAN |-> <<">">>,
     GREATER_THAN_EQUALS |-> <<">", "=">>, LESS_THAN |-> <<"<">>,
     LESS_THAN_EQUALS |-> <<"<", "=">>]

\* the join texts of section 4.2
JoinText == [AND |-> <<" ", "A", "N", "D", " ">>, OR |-> <<" ", "O", "R", " ">>]

\* render() of a condition tree as sections 4.1 and 4.2 describe it
RECURSIVE Rendering(_)
NonEmptyRenderings(members) ==
    SelectSeq([i \in 1..Len(members) |-> Rendering(members[i])],
              LAMBDA r : r # <<>>)
RECURSIVE JoinedBy(_, _)
JoinedBy(sep, strs) ==
    IF Len(strs) = 0 THEN <<>>
    ELSE IF Len(strs) = 1 THEN strs[1]
    ELSE JoinedBy(sep, SubSeq(strs, 1, Len(strs) - 1)) \o sep \o strs[Len(strs)]
Rendering(c) ==
    IF c.cls = "_Condition"
    THEN IF c._column_name # None /\ c._value # None
         THEN Str(c._column_name) \o <<" ">> \o OperatorSymbol[c._type]
                  \o <<" ">> \o Str(c._value)
         ELSE <<>>
    ELSE <<"(">> \o JoinedBy(JoinText[c._type], NonEmptyRenderings(c.items))
             \o <<")">>

\* the values a condition tree binds, left to right
RECURSIVE WhereValues(_)
RECURSIVE WhereValuesOf(_)
WhereValuesOf(members) ==
    IF Len(members) = 0 THEN <<>>
    ELSE WhereValues(members[1]) \o WhereValuesOf(Tail(members))
WhereValues(c) ==
    IF c.cls = "_Condition"
    THEN IF c._column_name # None /\ c._value # None THEN <<c._value>> ELSE <<>>
    ELSE WhereValuesOf(c.items)

IsBuild(cls) == last.op = "build" /\ subject.cls = cls

(***************************************************************************)
(* C1: build() on a builder whose table name is absent, whatever its       *)
(* variant, value_map and where, returns the error result "No table name   *)
(* provided.", a result without a statement, and does not invoke the       *)
(* variant's statement renderer.                                           *)
(***************************************************************************)
C1_MissingTableName ==
    (last.op = "build" /\ subject._table_name = None) =>
        /\ last.res = Ok([error |-> NoTableName])
        /\ "query" \notin DOMAIN last.res.val
        /\ \A i \in 1..Len(last.calls) : last.calls[i] # "_get_query_str"

C1_Witness ==
    /\ IsBuild("_Delete")
    /\ subject._table_name = None
    /\ subject._where_map = None
    /\ subject._value_map # None
    /\ "error" \in DOMAIN last.res.val

(***************************************************************************)
(* C2: build() on a Delete builder with a table name and no where          *)
(* condition returns an error result and no statement, and no execute      *)
(* operation of the handler sends a statement for such a builder.          *)
(***************************************************************************)
C2_DeleteRequiresWhere ==
    (subject.cls = "_Delete" /\ subject._table_name # None
        /\ subject._where_map = None) =>
        /\ last.op = "build" =>
              /\ IsOk(last.res)
              /\ "error" \in DOMAIN last.res.val
              /\ "query" \notin DOMAIN last.res.val
        /\ last.op \in ExecOps => last.sent = <<>>

(***************************************************************************)
(* C3: build() on an Insert builder with a table name and a non-empty      *)
(* value_map of n entries returns the statement                            *)
(* INSERT INTO <table> (<k1, ..., kn>) VALUES (?, ..., ?), the keys in     *)
(* insertion order and n placeholders, with the value_map's values in the  *)
(* same order as parameters; no value occurs in the statement text.        *)
(***************************************************************************)
C3_InsertStatement ==
    (IsBuild("_Insert") /\ subject._table_name # None
        /\ subject._value_map # None /\ Len(subject._value_map.items) >= 1) =>
        LET items == subject._value_map.items
            n == Len(items)
            keys == [i \in 1..n |-> items[i][1]]
            values == [i \in 1..n |-> items[i][2]]
            statement ==
                <<"I", "N", "S", "E", "R", "T", " ", "I", "N", "T", "O", " ">>
                    \o subject._table_name.s \o <<" ", "(">>
                    \o CommaSeparated(keys)
                    \o <<")", " ", "V", "A", "L", "U", "E", "S", " ", "(">>
                    \o CommaSeparated(Placeholders(n)) \o <<")">>
        IN  /\ IsOk(last.res)
            /\ DOMAIN last.res.val = {"query", "args"}
            /\ last.res.val.query = statement
            /\ Count("?", last.res.val.query) = n
            /\ IsSequenceValue(last.res.val.args)
            /\ last.res.val.args.items = values
            /\ \A i \in 1..n : ~Contains(last.res.val.query, Str(values[i]))

\* {a: 1, id: 2} on t
C3_Witness ==
    /\ IsBuild("_Insert")
    /\ subject._table_name = PyStr(<<"t">>)
    /\ subject._value_map =
           PyDict(<< << <<"a">>, PyInt(1) >>, << <<"i", "d">>, PyInt(2) >> >>)
    /\ IsOk(last.res)
    /\ last.res.val.query =
           <<"I", "N", "S", "E", "R", "T", " ", "I", "N", "T", "O", " ", "t", " ",
             "(", "a", ",", " ", "i", "d", ")", " ",
             "V", "A", "L", "U", "E", "S", " ", "(", "?", ",", " ", "?", ")">>
    /\ last.res.val.args = PyTuple(<<PyInt(1), PyInt(2)>>)

(***************************************************************************)
(* C4: build() on a Select, Update or Delete builder with a table name and *)
(* a where condition returns a statement in which no WHERE value occurs as *)
(* text, with the SET/VALUES values followed by the WHERE values as its    *)
(* one parameter list, as many as the statement has placeholders.  Stated  *)
(* for a where that is one Condition with column and value set, the case   *)
(* of the claim's examples; a ConditionGroup does not render at all (C7).  *)
(***************************************************************************)
C4_WhereValuesAreBound ==
    (last.op = "build" /\ subject.cls \in {"_Select", "_Update", "_Delete"}
        /\ subject._table_name # None /\ subject._where_map # None
        /\ subject._where_map.cls = "_Condition"
        /\ subject._where_map._column_name # None
        /\ subject._where_map._value # None) =>
        LET set == IF subject._value_map = None THEN <<>>
                   ELSE DictValues(subject._value_map)
            bound == WhereValues(subject._where_map)
        IN  /\ IsOk(last.res)
            /\ "query" \in DOMAIN last.res.val
            /\ IsSequenceValue(last.res.val.args)
            /\ last.res.val.args.items = set \o bound
            /\ Count("?", last.res.val.query) = Len(last.res.val.args.items)
            /\ \A i \in 1..Len(bound) :
                   ~Contains(last.res.val.query, Str(bound[i]))

(***************************************************************************)
(* C5: build() on an Update builder with a table name and a non-empty      *)
(* value_map succeeds for keys of any length, and its statement sets       *)
(* "key = ?" for each key in insertion order, separated by ", ".           *)
(***************************************************************************)
C5_UpdateSetClause ==
    (IsBuild("_Update") /\ subject._table_name # None
        /\ subject._value_map # None /\ Len(subject._value_map.items) >= 1
        /\ subject._where_map = None) =>
        LET keys == DictKeys(subject._value_map)
        IN  /\ IsOk(last.res)
            /\ "query" \in DOMAIN last.res.val
            /\ last.res.val.query =
                   <<"U", "P", "D", "A", "T", "E", " ">> \o subject._table_name.s
                       \o <<" ", "S", "E", "T", " ">>
                       \o CommaSeparated([i \in 1..Len(keys) |->
                                             keys[i] \o <<" ", "=", " ", "?">>])

(***************************************************************************)
(* C6: str() of a Condition is "<column> <operator symbol> <value>" with   *)
(* the operator's literal symbol when column and value are both set, and   *)
(* the empty string when either is unset.                                  *)
(***************************************************************************)
C6_ConditionRender ==
    (last.op = "__str__" /\ subject.cls = "_Condition") =>
        last.res = Ok(Rendering(subject))

(***************************************************************************)
(* C7: str() of a ConditionGroup is the parenthesized renderings of its    *)
(* members that render non-empty, in order, joined by the group's join     *)
(* text; a group without members renders as "()".                          *)
(***************************************************************************)
C7_GroupRender ==
    (last.op = "__str__" /\ subject.cls = "_ConditionGroup") =>
        last.res = Ok(Rendering(subject))

(***************************************************************************)
(* C8: build() on a Select builder with a table name, no value_map and no  *)
(* where condition returns the statement SELECT * FROM <table> without     *)
(* trailing whitespace, and the empty sequence as parameters.              *)
(***************************************************************************)
C8_SelectAll ==
    (IsBuild("_Select") /\ subject._table_name # None
        /\ subject._value_map = None /\ subject._where_map = None) =>
        /\ IsOk(last.res)
        /\ "query" \in DOMAIN last.res.val
        /\ last.res.val.query =
               <<"S", "E", "L", "E", "C", "T", " ", "*", " ", "F", "R", "O", "M", " ">>
                   \o subject._table_name.s
        /\ IsSequenceValue(last.res.val.args)
        /\ last.res.val.args.items = <<>>

\* the name section 4.4 stores a row field under
StoredName(field, mapping) ==
    IF mapping # None /\ DictHas(mapping, field) THEN DictGet(mapping, field).s
    ELSE field

Covers(mapping, row) ==
    mapping # None /\ \A i \in 1..Len(row.items) : DictHas(mapping, row.items[i][1])

MappedNames(mapping, row) ==
    {DictGet(mapping, row.items[i][1]).s : i \in 1..Len(row.items)}

IsHydrated == last.op = "_Model" /\ IsOk(last.res) /\ subject.sqlite_row # None

(***************************************************************************)
(* C9, as claimed: a Model constructed from a persisted row holds every    *)
(* field's value under the mapped name where the mapping has an entry for  *)
(* the field and under the field's own name otherwise; with a mapping      *)
(* covering every row field it exposes only mapped names.                  *)
(***************************************************************************)
C9_EveryFieldKept ==
    IsHydrated =>
        LET row == subject.sqlite_row
            mapping == subject.sqlite_field_mapping
            model == last.res.val
        IN  /\ \A i \in 1..Len(row.items) :
                   /\ DictHas(model, StoredName(row.items[i][1], mapping))
                   /\ DictGet(model, StoredName(row.items[i][1], mapping))
                          = row.items[i][2]
            /\ Covers(mapping, row) =>
                   \A j \in 1..Len(model.items) :
                       model.items[j][1] \in MappedNames(mapping, row)

(***************************************************************************)
(* C9, amended: a Model constructed from a persisted row alone holds, for  *)
(* each field of the row whose name (mapped, or its own without a mapping  *)
(* entry) is not also the name of a later field of the row, the row's      *)
(* value under that name; its keys are exactly the fields' names, so with  *)
(* a mapping covering every row field it exposes only mapped names.        *)
(***************************************************************************)
C9_LastFieldOfEachNameKept ==
    IsHydrated =>
        LET row == subject.sqlite_row
            mapping == subject.sqlite_field_mapping
            model == last.res.val
            n == Len(row.items)
            name == [i \in 1..n |-> StoredName(row.items[i][1], mapping)]
        IN  /\ \A i \in 1..n :
                   (\A j \in (i + 1)..n : name[j] # name[i]) =>
                       /\ DictHas(model, name[i])
                       /\ DictGet(model, name[i]) = row.items[i][2]
            /\ {model.items[j][1] : j \in 1..Len(model.items)}
                   = {name[i] : i \in 1..n}
            /\ Covers(mapping, row) =>
                   \A j \in 1..Len(model.items) :
                       model.items[j][1] \in MappedNames(mapping, row)

\* row {a: 1, id: 2} under the mapping {a: x}
C9_Witness ==
    /\ IsHydrated
    /\ subject.sqlite_row =
           Row(<< << <<"a">>, PyInt(1) >>, << <<"i", "d">>, PyInt(2) >> >>)
    /\ subject.sqlite_field_mapping = PyDict(<< << <<"a">>, PyStr(<<"x">>) >> >>)
    /\ last.res.val =
           PyDict(<< << <<"x">>, PyInt(1) >>, << <<"i", "d">>, PyInt(2) >> >>)

(***************************************************************************)
(* C10: whatever the handler did before, each of its three execute         *)
(* operations on a builder raises nothing; a builder error and a storage   *)
(* failure are returned as the failure indicator (False for no-result,     *)
(* None for single-result and all-results); on a builder error no          *)
(* statement is sent to the connection.                                    *)
(***************************************************************************)
C10_FailuresAreReturned ==
    last.op \in ExecOps =>
        LET built == Query_build(subject).res
            failure == IF last.op = "_exec_query_no_result" THEN PyBool(FALSE)
                       ELSE None
            builderError == IsOk(built) /\ "error" \in DOMAIN built.val
            storageFailure ==
                /\ IsOk(built)
                /\ "query" \in DOMAIN built.val
                /\ \/ conn = "None"
                   \/ Cursor_execute(built.val.query, built.val.args, last.env)
                          # "ok"
        IN  /\ IsOk(last.res)
            /\ builderError => last.res.val = failure /\ last.sent = <<>>
            /\ storageFailure => last.res.val = failure

=============================================================================
